---- MODULE Spec2Model ----
(***************************************************************************)
(* Model of scripts/template.py: generation of a Homebrew formula from a   *)
(* template.  Strings are sequences of one-character strings, so that      *)
(* str.split, str.capitalize, str.replace and the two regular expressions  *)
(* are computed character by character.                                    *)
(***************************************************************************)
EXTENDS Integers, Sequences, FiniteSets, TLC

VARIABLES
    \* harness of the pure functions
    fpc, kebab_str, pascal, repascal, url, repo, version,
    \* one run of create_formula
    pc,             \* position in create_formula / generate_replacements / calculate_sha256
    config,         \* the FormulaConfig
    formulaDir,     \* TRUE when <parent>/Formula exists
    formulaFile,    \* Formula/<app_name>.rb
    fileBefore,     \* formulaFile when the run started
    tmp,            \* the NamedTemporaryFile: "none", "open", "deleted"
    curlRuns,       \* number of times curl was started
    shasumRuns,     \* number of times shasum was started
    curlExit,       \* "notrun", "ok", "nonzero", "notfound"
    shasumExit,     \* "notrun", "ok", "nonzero", "notfound"
    stdout,         \* result.stdout of shasum
    pending,        \* exception travelling out of the with block
    error,          \* exception that ended the run
    replacements,   \* the dict under construction, in insertion order
    source,         \* what template_path.read_text() returned
    template,       \* the local variable template
    key,            \* index of the next item of replacements.items()
    \* two runs on the same output path
    cpc, ctext, cfile, writeOrder

pureVars == <<fpc, kebab_str, pascal, repascal, url, repo, version>>
runVars == <<pc, config, formulaDir, formulaFile, fileBefore, tmp, curlRuns,
             shasumRuns, curlExit, shasumExit, stdout, pending, error,
             replacements, source, template, key>>
concVars == <<cpc, ctext, cfile, writeOrder>>
vars == <<pureVars, runVars, concVars>>

----------------------------------------------------------------------------
(* Bounds *)
MaxKebabLen == 4
MaxUrlPieces == 4

----------------------------------------------------------------------------
(* Characters and string helpers *)
NL == "\n"
LowerLetters == <<"a","b","c","d","e","f","g","h","i","j","k","l","m",
                  "n","o","p","q","r","s","t","u","v","w","x","y","z">>
UpperLetters == <<"A","B","C","D","E","F","G","H","I","J","K","L","M",
                  "N","O","P","Q","R","S","T","U","V","W","X","Y","Z">>

\* str.upper / str.lower of one character, for the ASCII letters; the
\* inputs of the harness and the configurations hold no other letter
Upper(c) ==
    IF \E i \in 1..26 : LowerLetters[i] = c
    THEN UpperLetters[CHOOSE i \in 1..26 : LowerLetters[i] = c]
    ELSE c

Lower(c) ==
    IF \E i \in 1..26 : UpperLetters[i] = c
    THEN LowerLetters[CHOOSE i \in 1..26 : UpperLetters[i] = c]
    ELSE c

Min(S) == CHOOSE x \in S : \A y \in S : x <= y
Max(S) == CHOOSE x \in S : \A y \in S : x >= y

RECURSIVE Join(_)
Join(ws) == IF ws = <<>> THEN <<>> ELSE Head(ws) \o Join(Tail(ws))

\* all strings of at most n characters over the alphabet A
RECURSIVE StringsUpTo(_, _)
StringsUpTo(A, n) ==
    IF n = 0 THEN {<<>>}
    ELSE LET prev == StringsUpTo(A, n - 1)
         IN  prev \cup {Append(p, c) : p \in prev, c \in A}

\* all concatenations of at most n pieces of P
RECURSIVE Concats(_, _)
Concats(P, n) ==
    IF n = 0 THEN {<<>>}
    ELSE LET prev == Concats(P, n - 1)
         IN  prev \cup {p \o q : p \in prev, q \in P}

\* s has the literal lit at position i
MatchLit(s, i, lit) ==
    /\ i >= 1
    /\ i + Len(lit) - 1 <= Len(s)
    /\ SubSeq(s, i, i + Len(lit) - 1) = lit

\* a call that returns val / a call that raises err
Returned(val) == [ok |-> TRUE, val |-> val, err |-> "none"]
Raised(err) == [ok |-> FALSE, val |-> <<>>, err |-> err]

----------------------------------------------------------------------------
(* to_pascal_case *)

\* str.split(sep) for a one-character separator
RECURSIVE Split(_, _)
Split(s, sep) ==
    IF \A i \in 1..Len(s) : s[i] # sep
    THEN <<s>>
    ELSE LET i == Min({j \in 1..Len(s) : s[j] = sep})
         IN  <<SubSeq(s, 1, i - 1)>> \o Split(SubSeq(s, i + 1, Len(s)), sep)

\* mutations of str.capitalize
CapitalizeNoUpper(word) == [i \in 1..Len(word) |-> Lower(word[i])]
CapitalizeKeepRest(word) ==
    [i \in 1..Len(word) |-> IF i = 1 THEN Upper(word[i]) ELSE word[i]]

\* str.capitalize: first character upper-cased, the others lower-cased
Capitalize(word) ==
    [i \in 1..Len(word) |-> IF i = 1 THEN Upper(word[i]) ELSE Lower(word[i])]

to_pascal_case(s) ==
    LET words == Split(s, "-")
    IN  Join([i \in 1..Len(words) |-> Capitalize(words[i])])

----------------------------------------------------------------------------
(* extract_repo *)
GithubLit == <<"g","i","t","h","u","b",".","c","o","m","/">>

\* mutation: both runs may be empty, as with [^/]*
RepoMatchesAtStar(s, i) ==
    IF ~MatchLit(s, i, GithubLit) THEN {}
    ELSE LET j == i + Len(GithubLit)
             owners == {a \in 0..Len(s) :
                           /\ j + a <= Len(s)
                           /\ \A k \in j..(j + a - 1) : s[k] # "/"
                           /\ s[j + a] = "/"}
             repos(a) == {b \in 0..Len(s) :
                            /\ j + a + b + 1 <= Len(s)
                            /\ \A k \in (j + a + 1)..(j + a + b) : s[k] # "/"
                            /\ s[j + a + b + 1] = "/"}
         IN  UNION {{<<a, b>> : b \in repos(a)} : a \in owners}

\* pairs <<a, b>> of lengths of the two [^/]+ runs with which
\* (github\.com/[^/]+/[^/]+)/ matches at position i
RepoMatchesAt(s, i) ==
    IF ~MatchLit(s, i, GithubLit) THEN {}
    ELSE LET j == i + Len(GithubLit)
             owners == {a \in 1..Len(s) :
                           /\ j + a <= Len(s)
                           /\ \A k \in j..(j + a - 1) : s[k] # "/"
                           /\ s[j + a] = "/"}
             repos(a) == {b \in 1..Len(s) :
                            /\ j + a + b + 1 <= Len(s)
                            /\ \A k \in (j + a + 1)..(j + a + b) : s[k] # "/"
                            /\ s[j + a + b + 1] = "/"}
         IN  UNION {{<<a, b>> : b \in repos(a)} : a \in owners}

\* the match the backtracking engine reports at i: the quantifiers are
\* greedy, the first one has priority
RepoGreedyAt(s, i) ==
    LET M == RepoMatchesAt(s, i)
        a == Max({ab[1] : ab \in M})
        b == Max({ab[2] : ab \in {x \in M : x[1] = a}})
    IN  <<a, b>>

extract_repo(s) ==
    LET starts == {i \in 1..Len(s) : RepoMatchesAt(s, i) # {}}
    IN  IF starts = {} THEN Raised("ValueError")
        ELSE LET i == Min(starts)
                 ab == RepoGreedyAt(s, i)
             IN  Returned(SubSeq(s, i, i + Len(GithubLit) + ab[1] + ab[2]))

----------------------------------------------------------------------------
(* extract_version *)
TagsLit == <<"/","t","a","g","s","/">>
TarGzLit == <<".","t","a","r",".","g","z">>

\* Python's $ without re.MULTILINE: at the end of the string, or just
\* before a newline that is the last character
AtDollar(s, p) ==
    \/ p = Len(s) + 1
    \/ p = Len(s) /\ s[p] = NL

\* lengths n of the [^/]+ run with which /tags/([^/]+)\.tar\.gz$ matches at i
VersionMatchesAt(s, i) ==
    IF ~MatchLit(s, i, TagsLit) THEN {}
    ELSE LET j == i + Len(TagsLit)
         IN  {n \in 1..Len(s) :
                 /\ \A k \in j..(j + n - 1) : k <= Len(s) /\ s[k] # "/"
                 /\ MatchLit(s, j + n, TarGzLit)
                 /\ AtDollar(s, j + n + Len(TarGzLit))}

extract_version(s) ==
    LET starts == {i \in 1..Len(s) : VersionMatchesAt(s, i) # {}}
    IN  IF starts = {} THEN Raised("ValueError")
        ELSE LET i == Min(starts)
                 n == Max(VersionMatchesAt(s, i))
                 j == i + Len(TagsLit)
             IN  Returned(SubSeq(s, j, j + n - 1))

----------------------------------------------------------------------------
(* Template rendering: generate_replacements and the loop of create_formula *)
K_CLASS_NAME == <<"C","L","A","S","S","_","N","A","M","E">>
K_DESCRIPTION == <<"D","E","S","C","R","I","P","T","I","O","N">>
K_HOMEPAGE == <<"H","O","M","E","P","A","G","E">>
K_URL == <<"U","R","L">>
K_SHA256 == <<"S","H","A","2","5","6">>
K_REPO == <<"R","E","P","O">>
K_GO_VERSION == <<"G","O","_","V","E","R","S","I","O","N">>
K_APP_NAME == <<"A","P","P","_","N","A","M","E">>
K_VERSION == <<"V","E","R","S","I","O","N">>

\* the dict of generate_replacements as the sequence of its items, in
\* insertion order; digest is what calculate_sha256 returned
AllReplacements(cfg, digest) ==
    << <<K_CLASS_NAME, to_pascal_case(cfg.app_name)>>,
       <<K_DESCRIPTION, cfg.description>>,
       <<K_HOMEPAGE, cfg.homepage>>,
       <<K_URL, cfg.url>>,
       <<K_SHA256, digest>>,
       <<K_REPO, extract_repo(cfg.url).val>>,
       <<K_GO_VERSION, cfg.go_version>>,
       <<K_APP_NAME, cfg.app_name>>,
       <<K_VERSION, extract_version(cfg.url).val>> >>

\* str.replace(old, new): the non-overlapping occurrences of old, found
\* from the left, are replaced
RECURSIVE PyReplace(_, _, _)
PyReplace(s, old, new) ==
    IF Len(s) < Len(old) THEN s
    ELSE IF SubSeq(s, 1, Len(old)) = old
         THEN new \o PyReplace(SubSeq(s, Len(old) + 1, Len(s)), old, new)
         ELSE <<s[1]>> \o PyReplace(Tail(s), old, new)

\* one iteration of the loop: template = template.replace(f"${key}", value)
ReplaceItem(text, item) == PyReplace(text, <<"$">> \o item[1], item[2])

\* the whole loop over replacements.items()
RECURSIVE RenderAll(_, _)
RenderAll(text, items) ==
    IF items = <<>> THEN text
    ELSE RenderAll(ReplaceItem(text, Head(items)), Tail(items))

----------------------------------------------------------------------------
(* Files *)
Absent == [exists |-> FALSE, data |-> <<>>]
OldFormula == [exists |-> TRUE, data |-> <<"o","l","d","e","r">>]

\* open(path, 'w'): the file is created or truncated
OpenTruncate(f) == [exists |-> TRUE, data |-> <<>>]

\* mutation: the text is appended to the file
WriteAppend(f, text) == [exists |-> TRUE, data |-> f.data \o text]

\* the write of a file object opened with 'w', flushed when it is closed:
\* the text goes to offset 0 of what the file holds at that moment
WriteAtStart(f, text) ==
    [exists |-> TRUE,
     data |-> text \o SubSeq(f.data, Len(text) + 1, Len(f.data))]

----------------------------------------------------------------------------
(* calculate_sha256 *)
\* A character below U+0080 is the one-character string itself; a
\* character from U+0080 on is the string "U+" and its four hexadecimal
\* digits, so that the module holds ASCII only.
\* The characters for which str.isspace() holds, the separators of
\* str.split() without argument: tab, newline, vertical tab, form feed,
\* carriage return, U+001C to U+001F, space ...
AsciiWhitespace ==
    {"\t", NL, "", "\f", "\r", "", "", "", "", " "}
\* ... and the 19 separators outside ASCII
UnicodeWhitespace ==
    {
      "U+0085", "U+00A0", "U+1680", "U+2000", "U+2001", "U+2002",
      "U+2003", "U+2004", "U+2005", "U+2006", "U+2007", "U+2008",
      "U+2009", "U+200A", "U+2028", "U+2029", "U+202F", "U+205F",
      "U+3000" }
Whitespace == AsciiWhitespace \cup UnicodeWhitespace
IsWs(c) == c \in Whitespace

\* str.split() without argument: the words between runs of whitespace
RECURSIVE WsSplit(_)
WsSplit(s) ==
    IF s = <<>> THEN <<>>
    ELSE IF IsWs(s[1]) THEN WsSplit(Tail(s))
    ELSE LET stops == {i \in 1..Len(s) : IsWs(s[i])}
             n == IF stops = {} THEN Len(s) ELSE Min(stops) - 1
         IN  <<SubSeq(s, 1, n)>> \o WsSplit(SubSeq(s, n + 1, Len(s)))

\* stands for the digest of the downloaded bytes
Digest == <<"9", "f">>
Stdouts ==
    { Digest \o <<" ", " ", "t", NL>>,
      Digest \o <<"\t", "t", NL>>,
      <<>>,
      Digest \o <<"U+2003", "t", NL>>,
      <<NL>>,
      <<"\t">>,
      <<"U+2028", NL>> }

----------------------------------------------------------------------------
(* One run of create_formula *)
MaxTemplatePieces == 2

AppName == <<"a", "-", "b">>
Descriptions == { <<"d">>, <<"$">> \o K_VERSION }
GoodUrl == GithubLit \o <<"o", "/", "r">> \o TagsLit \o <<"v">> \o TarGzLit
RunUrls ==
    { GoodUrl,
      GoodUrl \o <<NL>>,
      GithubLit \o <<"o", "/", "r", "/", "v">> \o TarGzLit,
      <<"x">> \o TagsLit \o <<"v">> \o TarGzLit }
Configs ==
    [app_name : {AppName}, description : Descriptions, homepage : {<<"h">>},
     url : RunUrls, go_version : {<<"1">>}]

TemplatePieces ==
    { <<"$">> \o K_CLASS_NAME, <<"$">> \o K_DESCRIPTION, <<"$">> \o K_HOMEPAGE,
      <<"$">> \o K_URL, <<"$">> \o K_SHA256, <<"$">> \o K_REPO,
      <<"$">> \o K_GO_VERSION, <<"$">> \o K_APP_NAME, <<"$">> \o K_VERSION,
      <<"$", "X">>, <<"_", "B">>, <<"S">>, <<" ">> }
Templates == Concats(TemplatePieces, MaxTemplatePieces)

PureIdle ==
    /\ fpc = "idle"
    /\ kebab_str = <<>>
    /\ pascal = <<>>
    /\ repascal = <<>>
    /\ url = <<>>
    /\ repo = [ok |-> FALSE, val |-> <<>>, err |-> "notrun"]
    /\ version = [ok |-> FALSE, val |-> <<>>, err |-> "notrun"]

RunIdle ==
    /\ pc = "idle"
    /\ config = [app_name |-> <<>>, description |-> <<>>, homepage |-> <<>>,
                 url |-> <<>>, go_version |-> <<>>]
    /\ formulaDir = FALSE
    /\ formulaFile = Absent
    /\ fileBefore = Absent
    /\ tmp = "none"
    /\ curlRuns = 0
    /\ shasumRuns = 0
    /\ curlExit = "notrun"
    /\ shasumExit = "notrun"
    /\ stdout = <<>>
    /\ pending = "none"
    /\ error = "none"
    /\ replacements = <<>>
    /\ source = <<>>
    /\ template = <<>>
    /\ key = 1

ConcIdle ==
    /\ cpc = <<"idle", "idle">>
    /\ ctext = << <<>>, <<>> >>
    /\ cfile = Absent
    /\ writeOrder = <<>>

Init ==
    /\ pc = "mkdir"
    /\ config \in Configs
    /\ formulaFile \in {Absent, OldFormula}
    /\ formulaDir \in {d \in BOOLEAN : formulaFile.exists => d}
    /\ fileBefore = formulaFile
    /\ tmp = "none"
    /\ curlRuns = 0
    /\ shasumRuns = 0
    /\ curlExit = "notrun"
    /\ shasumExit = "notrun"
    /\ stdout = <<>>
    /\ pending = "none"
    /\ error = "none"
    /\ replacements = <<>>
    /\ source = <<>>
    /\ template = <<>>
    /\ key = 1
    /\ PureIdle
    /\ ConcIdle

\* formula_dir.mkdir(exist_ok=True)
Mkdir ==
    /\ pc = "mkdir"
    /\ formulaDir' = TRUE
    /\ pc' = "dict"
    /\ UNCHANGED <<config, formulaFile, fileBefore, tmp, curlRuns, shasumRuns,
                   curlExit, shasumExit, stdout, pending, error, replacements,
                   source, template, key>>
    /\ UNCHANGED <<pureVars, concVars>>

\* generate_replacements: the items evaluated before calculate_sha256
StartReplacements ==
    /\ pc = "dict"
    /\ replacements' = SubSeq(AllReplacements(config, <<>>), 1, 4)
    /\ pc' = "tmp"
    /\ UNCHANGED <<config, formulaDir, formulaFile, fileBefore, tmp, curlRuns,
                   shasumRuns, curlExit, shasumExit, stdout, pending, error,
                   source, template, key>>
    /\ UNCHANGED <<pureVars, concVars>>

\* with tempfile.NamedTemporaryFile() as tmp
EnterTmp ==
    /\ pc = "tmp"
    /\ tmp' = "open"
    /\ pc' = "curl"
    /\ UNCHANGED <<config, formulaDir, formulaFile, fileBefore, curlRuns,
                   shasumRuns, curlExit, shasumExit, stdout, pending, error,
                   replacements, source, template, key>>
    /\ UNCHANGED <<pureVars, concVars>>

\* subprocess.run(['curl', ...], check=True): a non-zero exit raises
\* CalledProcessError, which the except clause turns into RuntimeError; a
\* missing curl raises FileNotFoundError, which no clause catches
Curl ==
    /\ pc = "curl"
    /\ curlRuns' = curlRuns + 1
    /\ \E outcome \in {"ok", "nonzero", "notfound"} :
          /\ curlExit' = outcome
          /\ pending' = CASE outcome = "ok" -> "none"
                          [] outcome = "nonzero" -> "RuntimeError"
                          [] outcome = "notfound" -> "FileNotFoundError"
          /\ pc' = IF outcome = "ok" THEN "shasum" ELSE "exit"
    /\ UNCHANGED <<config, formulaDir, formulaFile, fileBefore, tmp,
                   shasumRuns, shasumExit, stdout, error, replacements,
                   source, template, key>>
    /\ UNCHANGED <<pureVars, concVars>>

\* result = subprocess.run(['shasum', '-a', '256', tmp.name], check=True):
\* a non-zero exit raises CalledProcessError, turned into RuntimeError; a
\* missing shasum raises FileNotFoundError, which no clause catches
Shasum ==
    /\ pc = "shasum"
    /\ shasumRuns' = shasumRuns + 1
    /\ \/ /\ shasumExit' = "nonzero"
          /\ pending' = "RuntimeError"
          /\ stdout' = stdout
          /\ pc' = "exit"
       \/ /\ shasumExit' = "notfound"
          /\ pending' = "FileNotFoundError"
          /\ stdout' = stdout
          /\ pc' = "exit"
       \/ /\ shasumExit' = "ok"
          /\ pending' = pending
          /\ stdout' \in Stdouts
          /\ pc' = "parse"
    /\ UNCHANGED <<config, formulaDir, formulaFile, fileBefore, tmp, curlRuns,
                   curlExit, error, replacements, source, template, key>>
    /\ UNCHANGED <<pureVars, concVars>>

\* return result.stdout.split()[0]: IndexError when there is no word;
\* IndexError is not a CalledProcessError and passes the except clause
ParseDigest ==
    /\ pc = "parse"
    /\ pending' = IF WsSplit(stdout) = <<>> THEN "IndexError" ELSE "none"
    /\ pc' = "exit"
    /\ UNCHANGED <<config, formulaDir, formulaFile, fileBefore, tmp, curlRuns,
                   shasumRuns, curlExit, shasumExit, stdout, error,
                   replacements, source, template, key>>
    /\ UNCHANGED <<pureVars, concVars>>

\* mutation: the temporary file is removed on the normal path only
ExitTmpLeak ==
    /\ pc = "exit"
    /\ tmp' = IF pending = "none" THEN "deleted" ELSE tmp
    /\ IF pending = "none"
       THEN /\ replacements' = SubSeq(AllReplacements(config, WsSplit(stdout)[1]), 1, 5)
            /\ pc' = "repo"
            /\ error' = error
       ELSE /\ error' = pending
            /\ pc' = "aborted"
            /\ replacements' = replacements
    /\ UNCHANGED <<config, formulaDir, formulaFile, fileBefore, curlRuns,
                   shasumRuns, curlExit, shasumExit, stdout, pending, source,
                   template, key>>
    /\ UNCHANGED <<pureVars, concVars>>

\* leaving the with block, by return or by exception: the temporary file
\* is closed and deleted, then the value or the exception reaches
\* generate_replacements
ExitTmp ==
    /\ pc = "exit"
    /\ tmp' = "deleted"
    /\ IF pending = "none"
       THEN /\ replacements' = SubSeq(AllReplacements(config, WsSplit(stdout)[1]), 1, 5)
            /\ pc' = "repo"
            /\ error' = error
       ELSE /\ error' = pending
            /\ pc' = "aborted"
            /\ replacements' = replacements
    /\ UNCHANGED <<config, formulaDir, formulaFile, fileBefore, curlRuns,
                   shasumRuns, curlExit, shasumExit, stdout, pending, source,
                   template, key>>
    /\ UNCHANGED <<pureVars, concVars>>

\* "REPO": extract_repo(config.url)
ExtractRepoStep ==
    /\ pc = "repo"
    /\ IF extract_repo(config.url).ok
       THEN /\ replacements' = SubSeq(AllReplacements(config, replacements[5][2]), 1, 6)
            /\ pc' = "version"
            /\ error' = error
       ELSE /\ error' = extract_repo(config.url).err
            /\ pc' = "aborted"
            /\ replacements' = replacements
    /\ UNCHANGED <<config, formulaDir, formulaFile, fileBefore, tmp, curlRuns,
                   shasumRuns, curlExit, shasumExit, stdout, pending, source,
                   template, key>>
    /\ UNCHANGED <<pureVars, concVars>>

\* "GO_VERSION", "APP_NAME", "VERSION": extract_version(config.url); the
\* dict is returned
ExtractVersionStep ==
    /\ pc = "version"
    /\ IF extract_version(config.url).ok
       THEN /\ replacements' = AllReplacements(config, replacements[5][2])
            /\ pc' = "read"
            /\ error' = error
       ELSE /\ error' = extract_version(config.url).err
            /\ pc' = "aborted"
            /\ replacements' = replacements
    /\ UNCHANGED <<config, formulaDir, formulaFile, fileBefore, tmp, curlRuns,
                   shasumRuns, curlExit, shasumExit, stdout, pending, source,
                   template, key>>
    /\ UNCHANGED <<pureVars, concVars>>

\* template = template_path.read_text(): the file holds some template, or
\* cannot be read
ReadTemplate ==
    /\ pc = "read"
    /\ \/ /\ \E t \in Templates : source' = t /\ template' = t
          /\ pc' = "loop"
          /\ error' = error
       \/ /\ error' = "FileNotFoundError"
          /\ pc' = "aborted"
          /\ UNCHANGED <<source, template>>
    /\ UNCHANGED <<config, formulaDir, formulaFile, fileBefore, tmp, curlRuns,
                   shasumRuns, curlExit, shasumExit, stdout, pending,
                   replacements, key>>
    /\ UNCHANGED <<pureVars, concVars>>

\* for key, value in replacements.items(): template = template.replace(...)
ReplaceStep ==
    /\ pc = "loop"
    /\ key <= Len(replacements)
    /\ template' = ReplaceItem(template, replacements[key])
    /\ key' = key + 1
    /\ UNCHANGED <<pc, config, formulaDir, formulaFile, fileBefore, tmp,
                   curlRuns, shasumRuns, curlExit, shasumExit, stdout, pending,
                   error, replacements, source>>
    /\ UNCHANGED <<pureVars, concVars>>

\* write_text, first half: open(path, 'w') creates or truncates the file;
\* an open that is refused (OSError) leaves it as it is
OpenFormula ==
    /\ pc = "loop"
    /\ key > Len(replacements)
    /\ \/ /\ formulaFile' = OpenTruncate(formulaFile)
          /\ pc' = "write"
          /\ error' = error
       \/ /\ formulaFile' = formulaFile
          /\ pc' = "aborted"
          /\ error' = "OSError"
    /\ UNCHANGED <<config, formulaDir, fileBefore, tmp, curlRuns, shasumRuns,
                   curlExit, shasumExit, stdout, pending, replacements,
                   source, template, key>>
    /\ UNCHANGED <<pureVars, concVars>>

\* write_text, second half: write(template) and close.  The write can
\* raise OSError (full disk, I/O error) after the open truncated the file,
\* when only a proper prefix of the text, possibly nothing, went out
WriteFormula ==
    /\ pc = "write"
    /\ \/ /\ formulaFile' = WriteAtStart(formulaFile, template)
          /\ pc' = "done"
          /\ error' = error
       \/ /\ \E n \in 0..(Len(template) - 1) :
                formulaFile' = WriteAtStart(formulaFile, SubSeq(template, 1, n))
          /\ pc' = "aborted"
          /\ error' = "OSError"
    /\ UNCHANGED <<config, formulaDir, fileBefore, tmp, curlRuns, shasumRuns,
                   curlExit, shasumExit, stdout, pending, replacements,
                   source, template, key>>
    /\ UNCHANGED <<pureVars, concVars>>

Next ==
    \/ Mkdir
    \/ StartReplacements
    \/ EnterTmp
    \/ Curl
    \/ Shasum
    \/ ParseDigest
    \/ ExitTmp
    \/ ExtractRepoStep
    \/ ExtractVersionStep
    \/ ReadTemplate
    \/ ReplaceStep
    \/ OpenFormula
    \/ WriteFormula

Spec == Init /\ [][Next]_vars

----------------------------------------------------------------------------
(* Two runs of the script on the same Formula/<app_name>.rb.  What a run   *)
(* does before it opens the output file is private to it and is one step   *)
(* here; the open and the write are the steps of write_text.              *)
Instances == {1, 2}
ConcPieces == { <<"$">> \o K_DESCRIPTION, <<"$">> \o K_VERSION, <<"S">> }
ConcTemplates == Concats(ConcPieces, MaxTemplatePieces)
ConcConfigs == {c \in Configs : c.url = GoodUrl}

InitConc ==
    /\ cpc = <<"render", "render">>
    /\ ctext = << <<>>, <<>> >>
    /\ cfile \in {Absent, OldFormula}
    /\ writeOrder = <<>>
    /\ PureIdle
    /\ RunIdle

\* create_formula up to the end of the replacement loop
CRender(p) ==
    /\ cpc[p] = "render"
    /\ \E c \in ConcConfigs, t \in ConcTemplates :
          ctext' = [ctext EXCEPT ![p] = RenderAll(t, AllReplacements(c, Digest))]
    /\ cpc' = [cpc EXCEPT ![p] = "open"]
    /\ UNCHANGED <<cfile, writeOrder>>
    /\ UNCHANGED <<pureVars, runVars>>

\* write_text, first half: open(path, 'w')
COpen(p) ==
    /\ cpc[p] = "open"
    /\ cfile' = OpenTruncate(cfile)
    /\ writeOrder' = Append(writeOrder, <<"open", p>>)
    /\ cpc' = [cpc EXCEPT ![p] = "write"]
    /\ UNCHANGED ctext
    /\ UNCHANGED <<pureVars, runVars>>

\* write_text, second half: write(template) and close
CWrite(p) ==
    /\ cpc[p] = "write"
    /\ cfile' = WriteAtStart(cfile, ctext[p])
    /\ writeOrder' = Append(writeOrder, <<"write", p>>)
    /\ cpc' = [cpc EXCEPT ![p] = "done"]
    /\ UNCHANGED ctext
    /\ UNCHANGED <<pureVars, runVars>>

NextConc == \E p \in Instances : CRender(p) \/ COpen(p) \/ CWrite(p)
SpecConc == InitConc /\ [][NextConc]_vars

----------------------------------------------------------------------------
(* Harness of the pure functions: the input is drawn in Init, the actions  *)
(* apply the functions.                                                    *)
NotRun == [ok |-> FALSE, val |-> <<>>, err |-> "notrun"]

KebabAlphabet == {"a", "b", "-"}
KebabInputs == StringsUpTo(KebabAlphabet, MaxKebabLen)

UrlPieces ==
    { GithubLit,
      <<"g","i","t","h","u","b","-","c","o","m","/">>,
      <<"o","/">>,
      <<"r">>,
      <<"/">>,
      TagsLit,
      TarGzLit,
      <<NL>> }
UrlInputs == Concats(UrlPieces, MaxUrlPieces)

InitPascal ==
    /\ fpc = "input"
    /\ kebab_str \in KebabInputs
    /\ pascal = <<>>
    /\ repascal = <<>>
    /\ url = <<>>
    /\ repo = NotRun
    /\ version = NotRun
    /\ RunIdle
    /\ ConcIdle

CallToPascalCase ==
    /\ fpc = "input"
    /\ pascal' = to_pascal_case(kebab_str)
    /\ fpc' = "converted"
    /\ UNCHANGED <<kebab_str, repascal, url, repo, version>>
    /\ UNCHANGED <<runVars, concVars>>

ReapplyToPascalCase ==
    /\ fpc = "converted"
    /\ repascal' = to_pascal_case(pascal)
    /\ fpc' = "reapplied"
    /\ UNCHANGED <<kebab_str, pascal, url, repo, version>>
    /\ UNCHANGED <<runVars, concVars>>

NextPascal == CallToPascalCase \/ ReapplyToPascalCase
SpecPascal == InitPascal /\ [][NextPascal]_vars

InitUrl ==
    /\ fpc = "input"
    /\ kebab_str = <<>>
    /\ pascal = <<>>
    /\ repascal = <<>>
    /\ url \in UrlInputs
    /\ repo = NotRun
    /\ version = NotRun
    /\ RunIdle
    /\ ConcIdle

CallExtractRepo ==
    /\ fpc = "input"
    /\ repo' = extract_repo(url)
    /\ fpc' = "repo"
    /\ UNCHANGED <<kebab_str, pascal, repascal, url, version>>
    /\ UNCHANGED <<runVars, concVars>>

CallExtractVersion ==
    /\ fpc = "repo"
    /\ version' = extract_version(url)
    /\ fpc' = "version"
    /\ UNCHANGED <<kebab_str, pascal, repascal, url, repo>>
    /\ UNCHANGED <<runVars, concVars>>

NextUrl == CallExtractRepo \/ CallExtractVersion
SpecUrl == InitUrl /\ [][NextUrl]_vars

----------------------------------------------------------------------------
(* C5 *)
IsKebab(s) == \A i \in 1..Len(s) : s[i] \in {"-"} \cup {LowerLetters[k] : k \in 1..26}

\* the characters of s that are not hyphens, in order, the one that starts
\* a word (first character, or preceded by a hyphen) upper-cased
RECURSIVE WordStartsUpper(_, _)
WordStartsUpper(s, i) ==
    IF i > Len(s) THEN <<>>
    ELSE IF s[i] = "-" THEN WordStartsUpper(s, i + 1)
    ELSE IF i = 1 \/ s[i - 1] = "-" THEN <<Upper(s[i])>> \o WordStartsUpper(s, i + 1)
    ELSE <<s[i]>> \o WordStartsUpper(s, i + 1)

NoHyphen(s) == \A i \in 1..Len(s) : s[i] # "-"

\* C5: on an input of lowercase letters and hyphens, to_pascal_case returns
\* the non-empty hyphen-separated words, in order and without separator,
\* each with its first letter upper-cased and the rest unchanged; no hyphen
\* is left, and a single word is returned capitalized.
C5_PascalIsCapitalizedWords ==
    (fpc # "input" /\ IsKebab(kebab_str)) =>
        /\ pascal = WordStartsUpper(kebab_str, 1)
        /\ NoHyphen(pascal)
        /\ (NoHyphen(kebab_str) /\ kebab_str # <<>> =>
               pascal = <<Upper(kebab_str[1])>> \o Tail(kebab_str))

C5_Witness ==
    /\ fpc = "converted"
    /\ kebab_str = <<"-", "a", "-", "b">>
    /\ pascal = <<"A", "B">>

(* C6 *)
NonEmptyWords(s) ==
    LET words == Split(s, "-")
    IN  Cardinality({i \in 1..Len(words) : words[i] # <<>>})

\* C6 as stated: the output has no hyphen and converting it again leaves
\* it unchanged.
C6_Idempotent ==
    (fpc = "reapplied" /\ IsKebab(kebab_str)) =>
        NoHyphen(pascal) /\ repascal = pascal

\* C6 amended: the output has no hyphen; converting it again lower-cases
\* every letter but the first, so it is unchanged exactly when the input
\* has at most one non-empty word.
C6_IdempotentOnSingleWord ==
    (fpc = "reapplied" /\ IsKebab(kebab_str)) =>
        /\ NoHyphen(pascal)
        /\ (repascal = pascal <=> NonEmptyWords(kebab_str) <= 1)
        /\ repascal = [i \in 1..Len(pascal) |->
                          IF i = 1 THEN pascal[i] ELSE Lower(pascal[i])]

C6_Witness ==
    /\ fpc = "reapplied"
    /\ kebab_str = <<"a", "-", "b">>
    /\ pascal = <<"A", "B">>
    /\ repascal = <<"A", "b">>

(* C4 *)
\* positions where github.com/<owner>/<repo>/ occurs, owner and repo being
\* non-empty segments without a slash
RepoOccurrences(s) ==
    {i \in 1..Len(s) :
        /\ MatchLit(s, i, GithubLit)
        /\ LET segs == Split(SubSeq(s, i + Len(GithubLit), Len(s)), "/")
           IN  Len(segs) >= 3 /\ segs[1] # <<>> /\ segs[2] # <<>>}

RepoAtOccurrence(s, i) ==
    LET segs == Split(SubSeq(s, i + Len(GithubLit), Len(s)), "/")
    IN  GithubLit \o segs[1] \o <<"/">> \o segs[2]

\* C4: if the URL contains github.com/<owner>/<repo>/, extract_repo returns
\* github.com/<owner>/<repo> of the leftmost occurrence, without the
\* trailing slash; otherwise it raises and returns nothing.
C4_RepoIsLeftmostOccurrence ==
    fpc # "input" =>
        IF RepoOccurrences(url) # {}
        THEN /\ repo = Returned(RepoAtOccurrence(url, Min(RepoOccurrences(url))))
             /\ repo.val[Len(repo.val)] # "/"
        ELSE repo = Raised("ValueError")

C4_Witness ==
    /\ fpc = "repo"
    /\ url = GithubLit \o <<"o", "/", "r", "/">>
    /\ repo = Returned(GithubLit \o <<"o", "/", "r">>)

C4_WitnessNoRepo ==
    /\ fpc = "repo"
    /\ url = GithubLit \o <<"/", "r", "/">>
    /\ ~repo.ok

(* C3 *)
\* lengths n of a non-empty slash-free v with which the URL ends with
\* /tags/ v .tar.gz
VersionSuffixes(s) ==
    {n \in 1..Len(s) :
        LET e == Len(s) - Len(TarGzLit)
        IN  /\ e - n - Len(TagsLit) >= 0
            /\ MatchLit(s, e + 1, TarGzLit)
            /\ \A k \in (e - n + 1)..e : s[k] # "/"
            /\ MatchLit(s, e - n - Len(TagsLit) + 1, TagsLit)}

\* C3: extract_version returns v exactly when the URL ends with
\* /tags/ v .tar.gz for a non-empty slash-free v; every other URL, also
\* one with a character after .tar.gz, raises.
C3_VersionIffSuffix ==
    fpc = "version" =>
        IF VersionSuffixes(url) # {}
        THEN LET n == CHOOSE n \in VersionSuffixes(url) : TRUE
                 e == Len(url) - Len(TarGzLit)
             IN  version = Returned(SubSeq(url, e - n + 1, e))
        ELSE version = Raised("ValueError")

(* C1 *)
NameChar(c) ==
    c \in {UpperLetters[k] : k \in 1..26}
          \cup {"0","1","2","3","4","5","6","7","8","9","_"}

\* the template read token by token: a token is $ and the longest run of
\* name characters after it; a token whose name is a key is replaced by
\* the value of that key, everything else is copied
RECURSIVE TokenRender(_, _)
TokenRender(text, items) ==
    IF text = <<>> THEN <<>>
    ELSE IF text[1] # "$" THEN <<text[1]>> \o TokenRender(Tail(text), items)
    ELSE LET rest == Tail(text)
             stops == {i \in 1..Len(rest) : ~NameChar(rest[i])}
             n == IF stops = {} THEN Len(rest) ELSE Min(stops) - 1
             name == SubSeq(rest, 1, n)
             hit == {k \in 1..Len(items) : items[k][1] = name}
         IN  (IF hit # {} THEN items[CHOOSE k \in hit : TRUE][2]
                          ELSE <<"$">> \o name)
             \o TokenRender(SubSeq(rest, n + 1, Len(rest)), items)

LoopFinished ==
    \/ pc = "loop" /\ key > Len(replacements)
    \/ pc \in {"write", "done"}

\* C1: after the replacement loop the text is the template with every
\* $NAME of the mapping replaced by its value and every other $-token,
\* also one whose name starts with a mapped name, unmodified.
C1_RenderReplacesExactTokens ==
    LoopFinished => template = TokenRender(source, replacements)

(* C2 *)
\* every occurrence of a $KEY in the original template replaced by its
\* value, the inserted values never scanned
RECURSIVE OriginalScanRender(_, _)
OriginalScanRender(text, items) ==
    IF text = <<>> THEN <<>>
    ELSE LET hit == {k \in 1..Len(items) : MatchLit(text, 1, <<"$">> \o items[k][1])}
         IN  IF hit = {}
             THEN <<text[1]>> \o OriginalScanRender(Tail(text), items)
             ELSE LET k == Min(hit)
                  IN  items[k][2]
                      \o OriginalScanRender(
                            SubSeq(text, Len(items[k][1]) + 2, Len(text)), items)

\* C2: the replacements are decided on the original template only; an
\* inserted value is not scanned again, so a value holding a $OTHER
\* substring is in the output verbatim.
C2_NoCrossSubstitution ==
    LoopFinished => template = OriginalScanRender(source, replacements)

(* C7 *)
\* C7: the temporary file is created before curl starts, exists during
\* the download and the hashing, and is deleted on every way out of
\* calculate_sha256.
C7_TmpDeletedOnEveryExit ==
    /\ (curlRuns > 0 \/ shasumRuns > 0) => tmp # "none"
    /\ pc \in {"curl", "shasum", "parse", "exit"} => tmp = "open"
    /\ pc \in {"repo", "version", "read", "loop", "write", "done", "aborted"}
          => tmp = "deleted"

C7_Witness ==
    /\ pc = "aborted"
    /\ error = "IndexError"
    /\ curlRuns = 1
    /\ shasumRuns = 1
    /\ tmp = "deleted"

(* C8 *)
HashCallEnded == tmp = "deleted"

\* C8: when curl exits with failure, or shasum exits with failure or
\* prints nothing that can be parsed, calculate_sha256 raises the
\* RuntimeError that wraps the cause, returns no digest, and each tool
\* was run at most once.
C8_HashFailureIsRuntimeError ==
    (/\ HashCallEnded
     /\ \/ curlExit = "nonzero"
        \/ shasumExit = "nonzero"
        \/ shasumExit = "ok" /\ WsSplit(stdout) = <<>>)
    => /\ error = "RuntimeError"
       /\ Len(replacements) < 5
       /\ curlRuns <= 1
       /\ shasumRuns <= 1

(* C9 *)
RunEnded == pc \in {"done", "aborted"}

\* C9: a failure of the hashing, of extract_repo, of extract_version or of
\* the reading of the template ends the run before the output file is
\* touched; no step that failed is passed over or given a fallback value;
\* at the end of every run the output file holds the complete rendered
\* text of this run or is exactly as it was before the run, and a failed
\* run leaves nothing else behind than the destination directory.
C9_AllOrNothing ==
    /\ pc \notin {"write", "done", "aborted"} => formulaFile = fileBefore
    /\ pc = "aborted" => error # "none" /\ formulaFile = fileBefore
    /\ RunEnded => tmp # "open"
    /\ pc \in {"repo", "version", "read", "loop", "write", "done"} =>
          /\ curlExit = "ok" /\ shasumExit = "ok"
          /\ WsSplit(stdout) # <<>>
    /\ pc = "done" =>
          /\ error = "none"
          /\ formulaDir
          /\ extract_repo(config.url).ok
          /\ extract_version(config.url).ok
          /\ replacements = AllReplacements(config, WsSplit(stdout)[1])
          /\ formulaFile = [exists |-> TRUE,
                            data |-> RenderAll(source, replacements)]

(* C10 *)
AllDone == \A p \in Instances : cpc[p] = "done"
LastWriter == writeOrder[Len(writeOrder)][2]
FirstWriter == CHOOSE p \in Instances : p # LastWriter
EventAt(kind, p) == CHOOSE i \in 1..Len(writeOrder) : writeOrder[i] = <<kind, p>>
IsPrefix(a, b) == Len(a) <= Len(b) /\ SubSeq(b, 1, Len(a)) = a

\* C10 as stated: after both runs the file is exactly the text of the run
\* that wrote last.
C10_LastWriterWins ==
    AllDone => cfile = [exists |-> TRUE, data |-> ctext[LastWriter]]

\* C10 amended: after both runs the file exists and begins with the whole
\* text of the run that wrote last; it is exactly that text unless the
\* other run wrote after the last writer's open and its text is longer, in
\* which case the rest of the other text follows.
C10_LastWriterIsPrefix ==
    AllDone =>
        LET last == ctext[LastWriter]
            first == ctext[FirstWriter]
            overlaid == /\ EventAt("write", FirstWriter) > EventAt("open", LastWriter)
                        /\ Len(first) > Len(last)
        IN  /\ cfile.exists
            /\ IsPrefix(last, cfile.data)
            /\ ~overlaid => cfile.data = last
            /\ overlaid => cfile.data = last \o SubSeq(first, Len(last) + 1, Len(first))

C10_Witness ==
    /\ AllDone
    /\ Len(ctext[FirstWriter]) > Len(ctext[LastWriter])
    /\ ctext[LastWriter] # <<>>
    /\ cfile.data # ctext[LastWriter]

C10_WitnessSameLength ==
    /\ AllDone
    /\ EventAt("write", FirstWriter) > EventAt("open", LastWriter)
    /\ Len(ctext[1]) = Len(ctext[2])
    /\ ctext[1] # ctext[2]
    /\ cfile.data = ctext[LastWriter]

====
